---------------------------- MODULE Spec2Model ----------------------------
(***************************************************************************)
(* A model of the notebook 08-BingChatClone.ipynb: the environment mapping *)
(* cell, the LLM client and tool construction, the MyBingSearch tool, the  *)
(* two retry loops around agent_executor.run, and the printmd rendering.   *)
(*                                                                         *)
(* The notebook is run top to bottom; an exception that no cell catches    *)
(* halts the run at that cell.  Optional Python names (response, i, e) are *)
(* modelled as sequences of length 0 (unbound) or 1 (bound).  A Python     *)
(* string is a sequence of one-character strings.                          *)
(***************************************************************************)
EXTENDS Integers, Sequences, FiniteSets, TLC

VARIABLES
    pc,             \* the cell / statement the run is at
    environ,        \* os.environ, restricted to the names the notebook touches
    env0,           \* history: the required names absent, and empty, at the start
    error,          \* the exception that halted the run: <<>> or <<[cell, exc]>>
    llm,            \* <<>> or <<client>>
    tools,          \* the list `tools`: <<>> or <<MyBingSearch instance>>
    agent_executor, \* <<>> or <<executor>>
    QUESTION,       \* <<>> or <<question>>
    response,       \* <<>> or <<string>>
    i,              \* the loop variable of the retry loops: <<>> or <<n>>
    iter,           \* position of the range() iterator of the current loop
    e,              \* the name bound by `except Exception as e`: <<>> or <<exc>>
    result,         \* outcome of the agent_executor.run call in flight
    steps,          \* tool calls made by the agent run in flight
    attempts,       \* history: agent_executor.run calls made by the current loop
    outcomes,       \* history: the outcome of each of those calls, in order
    tcall,          \* the last invocation of a MyBingSearch method: <<>> or <<record>>
    displayed,      \* what display(Markdown(..)) has shown, in order
    prev            \* the observable state a first run of loop 1 ended with

vars == <<pc, environ, env0, error, llm, tools, agent_executor, QUESTION,
          response, i, iter, e, result, steps, attempts, outcomes, tcall,
          displayed, prev>>

---------------------------------------------------------------------------
\* Bounds of the model.

\* longest string rendered on its own by printmd
MaxLen == 4
\* largest number of matches the search backend reports for a query
MaxMatches == 6
\* largest k a MyBingSearch instance is constructed with
MaxK == 6
\* most tool calls one agent run makes before it answers or raises
MaxSteps == 2

---------------------------------------------------------------------------
\* Python values.

Min(a, b) == IF a < b THEN a ELSE b

\* characters of the strings rendered on their own
Chars == {"$", "1", "0", "U"}

RECURSIVE StringsOfLen(_)
StringsOfLen(n) ==
    IF n = 0 THEN {<<>>}
    ELSE {Append(s, c) : s \in StringsOfLen(n - 1), c \in Chars}

Strings == UNION {StringsOfLen(n) : n \in 0..MaxLen}

\* an exception object: its class and its args
Exc(type, args) == [type |-> type, args |-> args]

\* str(e) of an exception with no argument or with one string argument
str(exc) == IF Len(exc.args) = 0 THEN <<>> ELSE exc.args[1]

\* what a call did: returned a value, or raised an exception
Returned(v) == [kind |-> "return", val |-> v, exc |-> Exc("", <<>>)]
Raised(x) == [kind |-> "raise", val |-> <<>>, exc |-> x]

---------------------------------------------------------------------------
\* printmd: string.replace("$", "USD ") and display(Markdown(..)).

USD == <<"U", "S", "D", " ">>

RECURSIVE replace(_)
replace(string) ==
    IF string = <<>> THEN <<>>
    ELSE (IF Head(string) = "$" THEN USD ELSE <<Head(string)>>)
             \o replace(Tail(string))

RECURSIVE replace_first(_)
replace_first(string) ==
    IF string = <<>> THEN <<>>
    ELSE IF Head(string) = "$" THEN USD \o Tail(string)
    ELSE <<Head(string)>> \o replace_first(Tail(string))

printmd_first(string) == replace_first(string)

\* the text printmd(string) displays
printmd(string) == replace(string)

---------------------------------------------------------------------------
\* Bootstrap: the environment mapping cell and the LLM client.

Required == {"AZURE_OPENAI_ENDPOINT", "AZURE_OPENAI_API_KEY",
             "AZURE_OPENAI_API_VERSION"}
Mapped == {"OPENAI_API_BASE", "OPENAI_API_KEY", "OPENAI_API_VERSION"}
EnvNames == Required \cup Mapped \cup {"OPENAI_API_TYPE"}

\* a variable is absent (<<>>), set to the empty string, or set to a value
Absent == <<>>
Blank == <<"">>

\* the statement of the mapping cell that follows statement n
EnvPc(n) == CASE n = 1 -> "env1" [] n = 2 -> "env2" [] n = 3 -> "env3"
              [] n = 4 -> "env4" [] OTHER -> "llm1"

\* os.environ.get(name, ""): no KeyError, the empty string for an absent name
os_environ_get(env, name) ==
    IF env[name] = Absent THEN Returned("") ELSE Returned(env[name][1])

\* os.environ[name]: KeyError when the name is absent
os_environ_getitem(env, name) ==
    IF env[name] = Absent THEN Raised(Exc("KeyError", <<name>>))
    ELSE Returned(env[name][1])

\* an uncaught exception ends the run at the cell that raised it
Halt(cell, exc) ==
    /\ pc' = "halted"
    /\ error' = <<[cell |-> cell, exc |-> exc]>>

\* os.environ[target] = os.environ[source], statement n of the cell
EnvAssign(n, target, source) ==
    /\ pc = EnvPc(n)
    /\ LET got == os_environ_getitem(environ, source) IN
         IF got.kind = "raise"
         THEN /\ Halt(EnvPc(n), got.exc)
              /\ UNCHANGED environ
         ELSE /\ environ' = [environ EXCEPT ![target] = <<got.val>>]
              /\ pc' = EnvPc(n + 1)
              /\ UNCHANGED error
    /\ UNCHANGED <<env0, llm, tools, agent_executor, QUESTION, response, i,
                   iter, e, result, steps, attempts, outcomes, tcall,
                   displayed, prev>>

EnvBase == EnvAssign(1, "OPENAI_API_BASE", "AZURE_OPENAI_ENDPOINT")
EnvKey == EnvAssign(2, "OPENAI_API_KEY", "AZURE_OPENAI_API_KEY")
EnvVersion == EnvAssign(3, "OPENAI_API_VERSION", "AZURE_OPENAI_API_VERSION")

\* os.environ["OPENAI_API_TYPE"] = "azure"
EnvType ==
    /\ pc = "env4"
    /\ environ' = [environ EXCEPT !["OPENAI_API_TYPE"] = <<"azure">>]
    /\ pc' = EnvPc(5)
    /\ UNCHANGED <<env0, error, llm, tools, agent_executor, QUESTION, response,
                   i, iter, e, result, steps, attempts, outcomes, tcall,
                   displayed, prev>>

\* The external client's constructor: it reads the mapped names from the
\* environment and raises on a name that is absent or empty.
AzureChatOpenAI(env, streaming) ==
    IF \E n \in Mapped : env[n] \in {Absent, Blank}
    THEN Raised(Exc("ValueError", <<"missing configuration">>))
    ELSE Returned([deployment_name |-> "gpt-4-32k", temperature |-> 0,
                   max_tokens |-> 1000, streaming |-> streaming])

\* llm = AzureChatOpenAI(...), the two statements of the cell
ConstructLLM(cell, next, streaming) ==
    /\ pc = cell
    /\ LET made == AzureChatOpenAI(environ, streaming) IN
         IF made.kind = "raise"
         THEN /\ Halt(cell, made.exc)
              /\ UNCHANGED llm
         ELSE /\ llm' = <<made.val>>
              /\ pc' = next
              /\ UNCHANGED error
    /\ UNCHANGED <<environ, env0, tools, agent_executor, QUESTION, response, i,
                   iter, e, result, steps, attempts, outcomes, tcall,
                   displayed, prev>>

LLMPlain == ConstructLLM("llm1", "llm2", FALSE)
LLMStreaming == ConstructLLM("llm2", "tools", TRUE)

---------------------------------------------------------------------------
\* The search backend (BingSearchAPIWrapper) and the tool MyBingSearch.

Queries == {"oil supply", "target.com coffee machine"}

\* faults of the backend call: authentication and network
BackendFaults == {Exc("HTTPError", << <<"4", "0", "1">> >>),
                  Exc("ConnectionError", << <<"n", "e", "t">> >>)}

\* What the backend is when it is called: up, reporting some number of
\* matches for the query, or down with a fault.
WebStates ==
    {[up |-> TRUE, matches |-> n, fault |-> Exc("", <<>>)] : n \in 0..MaxMatches}
    \cup {[up |-> FALSE, matches |-> 0, fault |-> f] : f \in BackendFaults}

\* the match the backend ranks at position rank for the query
SearchResult(query, rank) ==
    [title |-> <<"title", query, rank>>,
     snippet |-> <<"snippet", query, rank>>,
     url |-> <<"https", query, rank>>]

\* BingSearchAPIWrapper(k).results(query, num_results): the first num_results
\* matches in the backend's ranking, or the backend's fault.
BingSearchAPIWrapper_results(web, query, num_results) ==
    IF web.up
    THEN Returned([rank \in 1..Min(num_results, web.matches) |->
                      SearchResult(query, rank)])
    ELSE Raised(web.fault)

\* k: int = 5
DefaultK == 5
\* tools = [MyBingSearch(k=5)]
ToolK == 5

\* an instance of the class, constructed with k
MyBingSearch(k) ==
    [name |-> "@bing",
     description |-> "useful when the questions includes the term: @bing.\n",
     k |-> k]

\* What a method call did: the instance after it, its outcome, and the backend
\* calls it made, in order.
Invocation(self, out, backend_calls) ==
    [self |-> self, out |-> out, backend_calls |-> backend_calls]

BackendCall(query, num_results) == [query |-> query, num_results |-> num_results]

\* variants of _run: one result too many is asked for; a fault of the backend
\* is swallowed and an empty result returned; the instance is renamed
MyBingSearch_run_more(self, query, web) ==
    Invocation(self,
               BingSearchAPIWrapper_results(web, query, self.k + 1),
               <<BackendCall(query, self.k + 1)>>)

MyBingSearch_run_swallow(self, query, web) ==
    Invocation(self,
               IF web.up THEN BingSearchAPIWrapper_results(web, query, self.k)
               ELSE Returned(<<>>),
               <<BackendCall(query, self.k)>>)

MyBingSearch_run_renames(self, query, web) ==
    Invocation([self EXCEPT !.name = query],
               BingSearchAPIWrapper_results(web, query, self.k),
               <<BackendCall(query, self.k)>>)

\* _run(self, query): one call of bing.results(query, num_results=self.k), its
\* value returned and its exception left to propagate.
MyBingSearch_run(self, query, web) ==
    Invocation(self,
               BingSearchAPIWrapper_results(web, query, self.k),
               <<BackendCall(query, self.k)>>)

\* variant of _arun: it falls back to the synchronous search
MyBingSearch_arun_sync(self, query, web) ==
    Invocation(self,
               BingSearchAPIWrapper_results(web, query, self.k),
               <<BackendCall(query, self.k)>>)

\* _arun(self, query): raises, whatever the query and the backend
MyBingSearch_arun(self, query, web) ==
    Invocation(self,
               Raised(Exc("NotImplementedError",
                          <<"This Tool does not support async">>)),
               <<>>)

\* the record kept of an invocation of a method of tools[1]
Call(method, query, web, inv) ==
    [method |-> method, query |-> query, web |-> web, out |-> inv.out,
     backend_calls |-> inv.backend_calls]

\* tools = [MyBingSearch(k=5)]
ConstructTools ==
    /\ pc = "tools"
    /\ tools' = <<MyBingSearch(ToolK)>>
    /\ pc' = "agent"
    /\ UNCHANGED <<environ, env0, error, llm, agent_executor, QUESTION,
                   response, i, iter, e, result, steps, attempts, outcomes,
                   tcall, displayed, prev>>

\* agent_executor = initialize_agent(tools, llm, ...)
InitializeAgent ==
    /\ pc = "agent"
    /\ agent_executor' = <<[tools |-> tools, llm |-> llm[1],
                            prefix |-> "BING_PROMPT_PREFIX"]>>
    /\ pc' = "q1"
    /\ UNCHANGED <<environ, env0, error, llm, tools, QUESTION, response, i,
                   iter, e, result, steps, attempts, outcomes, tcall,
                   displayed, prev>>

---------------------------------------------------------------------------
\* Direct invocation of the tool's methods by a caller.

\* MyBingSearch(k=k), or MyBingSearch() with the default k
HarnessConstruct(k) ==
    /\ pc = "harness"
    /\ tools = <<>>
    /\ tools' = <<MyBingSearch(k)>>
    /\ UNCHANGED <<pc, environ, env0, error, llm, agent_executor, QUESTION,
                   response, i, iter, e, result, steps, attempts, outcomes,
                   tcall, displayed, prev>>

\* tools[0]._run(query)
HarnessRun(query, web) ==
    /\ pc = "harness"
    /\ tools # <<>>
    /\ LET inv == MyBingSearch_run(tools[1], query, web) IN
         /\ tools' = <<inv.self>>
         /\ tcall' = <<Call("_run", query, web, inv)>>
    /\ UNCHANGED <<pc, environ, env0, error, llm, agent_executor, QUESTION,
                   response, i, iter, e, result, steps, attempts, outcomes,
                   displayed, prev>>

\* await tools[0]._arun(query)
HarnessArun(query, web) ==
    /\ pc = "harness"
    /\ tools # <<>>
    /\ LET inv == MyBingSearch_arun(tools[1], query, web) IN
         /\ tools' = <<inv.self>>
         /\ tcall' = <<Call("_arun", query, web, inv)>>
    /\ UNCHANGED <<pc, environ, env0, error, llm, agent_executor, QUESTION,
                   response, i, iter, e, result, steps, attempts, outcomes,
                   displayed, prev>>

---------------------------------------------------------------------------
\* The agent executor, an external collaborator: run(question) makes tool
\* calls and LLM calls, and returns an answer string or raises.

\* answers the agent gives
Answers == {<<"o", "k">>, <<"$", "1">>}

\* faults of the LLM call and of parsing its output
LLMFaults == {Exc("OutputParserException", << <<"$", "1">> >>),
              Exc("Exception", <<>>)}

NoResult == [kind |-> "none", val |-> <<>>, exc |-> Exc("", <<>>)]

Sites == {1, 2}

Labels == [loop |-> <<"loop1", "loop2">>, for |-> <<"for1", "for2">>,
           try |-> <<"try1", "try2">>, run |-> <<"run1", "run2">>,
           back |-> <<"back1", "back2">>, except |-> <<"except1", "except2">>,
           print |-> <<"print1", "print2">>, q |-> <<"q1", "q2">>,
           after |-> <<"q2", "print3">>]

\* the agent run ends: its outcome goes back to the statement that called it
AgentEnds(site, out) ==
    /\ result' = out
    /\ outcomes' = Append(outcomes, out)
    /\ pc' = Labels.back[site]

\* the agent calls the tool: tools[0]._run(query), a blocking call.  An
\* exception of the tool ends the agent run with that exception.
AgentSearch(site, query, web) ==
    /\ pc = Labels.run[site]
    /\ steps < MaxSteps
    /\ LET inv == MyBingSearch_run(tools[1], query, web) IN
         /\ tools' = <<inv.self>>
         /\ tcall' = <<Call("_run", query, web, inv)>>
         /\ IF inv.out.kind = "raise"
            THEN /\ AgentEnds(site, Raised(inv.out.exc))
                 /\ UNCHANGED steps
            ELSE /\ steps' = steps + 1
                 /\ UNCHANGED <<pc, result, outcomes>>
    /\ UNCHANGED <<environ, env0, error, llm, agent_executor, QUESTION,
                   response, i, iter, e, attempts, displayed, prev>>

\* the agent gives its final answer
AgentAnswer(site, answer) ==
    /\ pc = Labels.run[site]
    /\ AgentEnds(site, Returned(answer))
    /\ UNCHANGED <<environ, env0, error, llm, tools, agent_executor, QUESTION,
                   response, i, iter, e, steps, attempts, tcall, displayed,
                   prev>>

\* the LLM call faults, or its output cannot be parsed
AgentFault(site, fault) ==
    /\ pc = Labels.run[site]
    /\ AgentEnds(site, Raised(fault))
    /\ UNCHANGED <<environ, env0, error, llm, tools, agent_executor, QUESTION,
                   response, i, iter, e, steps, attempts, tcall, displayed,
                   prev>>

---------------------------------------------------------------------------
\* The retry loops.

\* for i in range(2)
N1 == 2
\* for i in range(3)
N2 == 3

range(site) == IF site = 1 THEN N1 ELSE N2

\* QUESTION = "..."
AskQuestion(site) ==
    /\ pc = Labels.q[site]
    /\ QUESTION' = <<IF site = 1 THEN "oil supply"
                     ELSE "target.com coffee machine">>
    /\ pc' = Labels.loop[site]
    /\ UNCHANGED <<environ, env0, error, llm, tools, agent_executor, response,
                   i, iter, e, result, steps, attempts, outcomes, tcall,
                   displayed, prev>>

\* the for statement is entered: range(N) is evaluated
ForEnter(site) ==
    /\ pc = Labels.loop[site]
    /\ iter' = 0
    /\ attempts' = 0
    /\ outcomes' = <<>>
    /\ pc' = Labels.for[site]
    /\ UNCHANGED <<environ, env0, error, llm, tools, agent_executor, QUESTION,
                   response, i, e, result, steps, tcall, displayed, prev>>

\* the next value of range(N) is bound to i, or the loop is exhausted
ForNext(site) ==
    /\ pc = Labels.for[site]
    /\ IF iter < range(site)
       THEN /\ i' = <<iter>>
            /\ iter' = iter + 1
            /\ pc' = Labels.try[site]
       ELSE /\ pc' = Labels.print[site]
            /\ UNCHANGED <<i, iter>>
    /\ UNCHANGED <<environ, env0, error, llm, tools, agent_executor, QUESTION,
                   response, e, result, steps, attempts, outcomes, tcall,
                   displayed, prev>>

\* try: agent_executor.run(QUESTION) is called
Try(site) ==
    /\ pc = Labels.try[site]
    /\ attempts' = attempts + 1
    /\ steps' = 0
    /\ pc' = Labels.run[site]
    /\ UNCHANGED <<environ, env0, error, llm, tools, agent_executor, QUESTION,
                   response, i, iter, e, result, outcomes, tcall, displayed,
                   prev>>

\* variants: a response already bound is kept; the loop goes on
try_returned_keep(old, value) ==
    [response |-> IF old = <<>> THEN <<value>> ELSE old, jump |-> "break"]

try_returned_continue(old, value) ==
    [response |-> <<value>>, jump |-> "continue"]

\* the value the loop leaves in response when the call returned, and where
\* it goes next
try_returned(old, value) == [response |-> <<value>>, jump |-> "break"]

\* response = <the value returned>; break
TryReturned(site) ==
    /\ pc = Labels.back[site]
    /\ result.kind = "return"
    /\ LET did == try_returned(response, result.val) IN
         /\ response' = did.response
         /\ pc' = IF did.jump = "break" THEN Labels.print[site]
                  ELSE Labels.for[site]
    /\ result' = NoResult
    /\ UNCHANGED <<environ, env0, error, llm, tools, agent_executor, QUESTION,
                   i, iter, e, steps, attempts, outcomes, tcall, displayed,
                   prev>>

\* except Exception as e: the exception the call raised is bound to e
Except(site) ==
    /\ pc = Labels.back[site]
    /\ result.kind = "raise"
    /\ e' = <<result.exc>>
    /\ result' = NoResult
    /\ pc' = Labels.except[site]
    /\ UNCHANGED <<environ, env0, error, llm, tools, agent_executor, QUESTION,
                   response, i, iter, steps, attempts, outcomes, tcall,
                   displayed, prev>>

\* variant: the message of the first fault is kept
except_body_keep(old, exc) ==
    [response |-> IF old = <<>> THEN <<str(exc)>> ELSE old,
     jump |-> "continue"]

\* the value the handler leaves in response, and where it goes next
except_body(old, exc) == [response |-> <<str(exc)>>, jump |-> "continue"]

\* response = str(e); continue.  Leaving the handler unbinds e.
ExceptBody(site) ==
    /\ pc = Labels.except[site]
    /\ LET did == except_body(response, e[1]) IN
         /\ response' = did.response
         /\ pc' = IF did.jump = "break" THEN Labels.print[site]
                  ELSE Labels.for[site]
    /\ e' = <<>>
    /\ UNCHANGED <<environ, env0, error, llm, tools, agent_executor, QUESTION,
                   i, iter, result, steps, attempts, outcomes, tcall,
                   displayed, prev>>

\* printmd(response)
PrintResponse(site) ==
    /\ pc = Labels.print[site]
    /\ displayed' = Append(displayed, printmd(response[1]))
    /\ pc' = Labels.after[site]
    /\ UNCHANGED <<environ, env0, error, llm, tools, agent_executor, QUESTION,
                   response, i, iter, e, result, steps, attempts, outcomes,
                   tcall, prev>>

\* the prompt template of the agent, built from BING_PROMPT_PREFIX
Templates == {<<"U">>, <<"$", "U">>}

\* printmd(agent_executor.agent.llm_chain.prompt.template)
PrintTemplate(template) ==
    /\ pc = "print3"
    /\ displayed' = Append(displayed, printmd(template))
    /\ pc' = "done"
    /\ UNCHANGED <<environ, env0, error, llm, tools, agent_executor, QUESTION,
                   response, i, iter, e, result, steps, attempts, outcomes,
                   tcall, prev>>

---------------------------------------------------------------------------
\* The notebook, run top to bottom.

\* os.environ when the run starts: each required name absent, empty or set;
\* the mapped names absent, or left over from an earlier run
StartEnvs ==
    {[n \in EnvNames |->
         IF n \in Required THEN req[n]
         ELSE IF n \in Mapped THEN old ELSE Absent] :
       req \in [Required -> {Absent, Blank, <<"value">>}],
       old \in {Absent, <<"stale">>}}

\* the required names that are absent, and those that are empty, in env
Missing(env) == [absent |-> {n \in Required : env[n] = Absent},
                 blank |-> {n \in Required : env[n] = Blank}]

Init ==
    /\ pc = "env1"
    /\ environ \in StartEnvs
    /\ env0 = Missing(environ)
    /\ error = <<>>
    /\ llm = <<>>
    /\ tools = <<>>
    /\ agent_executor = <<>>
    /\ QUESTION = <<>>
    /\ response = <<>>
    /\ i = <<>>
    /\ iter = 0
    /\ e = <<>>
    /\ result = NoResult
    /\ steps = 0
    /\ attempts = 0
    /\ outcomes = <<>>
    /\ tcall = <<>>
    /\ displayed = <<>>
    /\ prev = <<>>

Next ==
    \/ EnvBase
    \/ EnvKey
    \/ EnvVersion
    \/ EnvType
    \/ LLMPlain
    \/ LLMStreaming
    \/ ConstructTools
    \/ InitializeAgent
    \/ \E site \in Sites : AskQuestion(site)
    \/ \E site \in Sites : ForEnter(site)
    \/ \E site \in Sites : ForNext(site)
    \/ \E site \in Sites : Try(site)
    \/ \E site \in Sites, query \in Queries, web \in WebStates :
          AgentSearch(site, query, web)
    \/ \E site \in Sites, answer \in Answers : AgentAnswer(site, answer)
    \/ \E site \in Sites, fault \in LLMFaults : AgentFault(site, fault)
    \/ \E site \in Sites : TryReturned(site)
    \/ \E site \in Sites : Except(site)
    \/ \E site \in Sites : ExceptBody(site)
    \/ \E site \in Sites : PrintResponse(site)
    \/ \E template \in Templates : PrintTemplate(template)

Spec == Init /\ [][Next]_vars

---------------------------------------------------------------------------
\* The state of a run that got through the bootstrap cells.

ReadyEnv ==
    [n \in EnvNames |-> IF n = "OPENAI_API_TYPE" THEN <<"azure">>
                        ELSE <<"value">>]

Ready ==
    /\ environ = ReadyEnv
    /\ env0 = [absent |-> {}, blank |-> {}]
    /\ error = <<>>
    /\ llm = <<AzureChatOpenAI(ReadyEnv, TRUE).val>>
    /\ e = <<>>
    /\ result = NoResult
    /\ tcall = <<>>
    /\ displayed = <<>>
    /\ prev = <<>>

\* The tool's methods, invoked directly: a process that defined the class.
InitTool ==
    /\ Ready
    /\ pc = "harness"
    /\ tools = <<>>
    /\ agent_executor = <<>>
    /\ QUESTION = <<>>
    /\ response = <<>>
    /\ i = <<>>
    /\ iter = 0
    /\ steps = 0
    /\ attempts = 0
    /\ outcomes = <<>>

NextTool ==
    \/ \E k \in 1..MaxK : HarnessConstruct(k)
    \/ HarnessConstruct(DefaultK)
    \/ \E query \in Queries, web \in WebStates : HarnessRun(query, web)
    \/ \E query \in Queries, web \in WebStates : HarnessArun(query, web)

SpecTool == InitTool /\ [][NextTool]_vars

\* printmd on its own: a run whose first attempt returned the string.
InitRender ==
    /\ Ready
    /\ pc = "print1"
    /\ tools = <<MyBingSearch(ToolK)>>
    /\ agent_executor = <<[tools |-> tools, llm |-> llm[1],
                           prefix |-> "BING_PROMPT_PREFIX"]>>
    /\ QUESTION = <<"oil supply">>
    /\ \E string \in Strings :
          /\ response = <<string>>
          /\ outcomes = <<Returned(string)>>
    /\ i = <<0>>
    /\ iter = 1
    /\ steps = 0
    /\ attempts = 1

NextRender == PrintResponse(1)

SpecRender == InitRender /\ [][NextRender]_vars

\* The first retry loop and its rendering, executed twice from the same
\* state: what the first execution left is kept in prev.
InitPair ==
    /\ Ready
    /\ pc = "loop1"
    /\ tools = <<MyBingSearch(ToolK)>>
    /\ agent_executor = <<[tools |-> tools, llm |-> llm[1],
                           prefix |-> "BING_PROMPT_PREFIX"]>>
    /\ QUESTION = <<"oil supply">>
    /\ response = <<>>
    /\ i = <<>>
    /\ iter = 0
    /\ steps = 0
    /\ attempts = 0
    /\ outcomes = <<>>

\* what is left of an execution of the loop and of printmd(response)
Observable ==
    [response |-> response, displayed |-> displayed, i |-> i, e |-> e]

Replay ==
    /\ pc = Labels.after[1]
    /\ prev = <<>>
    /\ prev' = <<[obs |-> Observable, outcomes |-> outcomes]>>
    /\ pc' = "loop1"
    /\ response' = <<>>
    /\ i' = <<>>
    /\ displayed' = <<>>
    /\ tcall' = <<>>
    /\ UNCHANGED <<environ, env0, error, llm, tools, agent_executor, QUESTION,
                   iter, e, result, steps, attempts, outcomes>>

NextPair ==
    \/ ForEnter(1)
    \/ ForNext(1)
    \/ Try(1)
    \/ \E query \in Queries, web \in WebStates : AgentSearch(1, query, web)
    \/ \E answer \in Answers : AgentAnswer(1, answer)
    \/ \E fault \in LLMFaults : AgentFault(1, fault)
    \/ TryReturned(1)
    \/ Except(1)
    \/ ExceptBody(1)
    \/ PrintResponse(1)
    \/ Replay

SpecPair == InitPair /\ [][NextPair]_vars

\* The notebook run and the direct invocations, as one specification.
InitAll == Init \/ InitTool

NextAll == Next \/ NextTool

SpecAll == InitAll /\ [][NextAll]_vars

---------------------------------------------------------------------------
\* Properties of the retry loops.

\* the loop at site has ended: before and after printmd(response)
AtEnd(site) == pc \in {Labels.print[site], Labels.after[site]}

AllFault(os) == \A j \in 1..Len(os) : os[j].kind = "raise"

\* the attempts among os that returned
Successes(os) == {j \in 1..Len(os) : os[j].kind = "return"}

\* the index of the first successful attempt
FirstSuccess(os) == CHOOSE j \in Successes(os) : \A m \in Successes(os) : j <= m

\* C1: when every attempt of a retry loop faulted, agent_executor.run was
\* called exactly N times (2 at the first loop, 3 at the second) and
\* response is the message of the fault of the N-th attempt.
C1_AllFaultLastMessage ==
    \A site \in Sites :
       (AtEnd(site) /\ AllFault(outcomes)) =>
          LET N == IF site = 1 THEN 2 ELSE 3 IN
            /\ attempts = N
            /\ Len(outcomes) = N
            /\ response = <<str(outcomes[N].exc)>>

C1_Witness ==
    /\ pc = "print2"
    /\ attempts = 3
    /\ AllFault(outcomes)
    /\ str(outcomes[1].exc) # str(outcomes[3].exc)
    /\ str(outcomes[2].exc) # str(outcomes[3].exc)
    /\ response = <<str(outcomes[3].exc)>>

\* C2: when attempts 1..j-1 faulted and attempt j returned, response is the
\* value attempt j returned.
C2_SuccessValue ==
    \A site \in Sites :
       (AtEnd(site) /\ Successes(outcomes) # {}) =>
          response = <<outcomes[FirstSuccess(outcomes)].val>>

C2_Witness ==
    /\ pc = "print1"
    /\ Len(outcomes) = 2
    /\ outcomes[1].kind = "raise"
    /\ outcomes[2].kind = "return"
    /\ str(outcomes[1].exc) # outcomes[2].val
    /\ response = <<outcomes[2].val>>

\* a call of agent_executor.run starts in this step
AttemptStarts == attempts' = attempts + 1

\* C3: the loop stops at the first attempt that returns: an attempt starts
\* only when every earlier call has ended and the last one raised, no call
\* follows one that returned, and when the loop has ended the number of calls
\* is the index of the first successful attempt, or N when there is none.
C3_StopsAtFirstSuccess ==
    /\ [][AttemptStarts =>
            /\ Len(outcomes) = attempts
            /\ AllFault(outcomes)]_vars
    /\ [](\A site \in Sites :
            /\ Successes(outcomes) \subseteq {attempts}
            /\ AtEnd(site) =>
                 attempts = IF Successes(outcomes) # {}
                            THEN Min(FirstSuccess(outcomes), range(site))
                            ELSE range(site))

C3_Witness ==
    /\ pc = "print2"
    /\ attempts = 2
    /\ outcomes[1].kind = "raise"
    /\ outcomes[2].kind = "return"

---------------------------------------------------------------------------
\* Properties of the tool.

\* the last invocation was of this method
Invoked(method) == tcall # <<>> /\ tcall[1].method = method

\* C4: an invocation of _arun raises NotImplementedError, whatever the query
\* and k: it returns nothing and makes no call to the search backend.
C4_ArunAlwaysFails ==
    Invoked("_arun") =>
       /\ tcall[1].out.kind = "raise"
       /\ tcall[1].out.exc.type = "NotImplementedError"
       /\ tcall[1].out.val = <<>>
       /\ tcall[1].backend_calls = <<>>

C4_Witness ==
    /\ Invoked("_arun")
    /\ tools[1].k = 3
    /\ tcall[1].web.up
    /\ tcall[1].web.matches = MaxMatches
    /\ tcall[1].out.kind = "raise"

\* C5: an invocation of _run that returns gives at most k results, in the
\* order the backend ranks them, with non-empty title and url; with k = 5
\* it gives at most 5, also when the backend reports 5 matches or more.
C5_AtMostKInOrder ==
    (Invoked("_run") /\ tcall[1].out.kind = "return") =>
       LET k == tools[1].k
           got == tcall[1].out.val
       IN /\ Len(got) <= k
          /\ k = 5 => Len(got) <= 5
          /\ \A rank \in 1..Len(got) :
                /\ got[rank] = SearchResult(tcall[1].query, rank)
                /\ got[rank].title # <<>>
                /\ got[rank].url # <<>>
          /\ Len(got) <= tcall[1].web.matches

C5_Witness ==
    /\ Invoked("_run")
    /\ tools[1].k = 5
    /\ tcall[1].web.up
    /\ tcall[1].web.matches > 5
    /\ Len(tcall[1].out.val) = 5

\* C8: once the MyBingSearch instance is constructed its name is "@bing" and
\* its description the class's, and no step changes either: no synchronous
\* or asynchronous invocation, agent run or retry attempt.
C8_DescriptorImmutable ==
    /\ [][tools # <<>> =>
            /\ tools' # <<>>
            /\ tools'[1].name = tools[1].name
            /\ tools'[1].description = tools[1].description]_vars
    /\ [](tools # <<>> =>
            /\ tools[1].name = "@bing"
            /\ tools[1].description =
                  "useful when the questions includes the term: @bing.\n")

C8_Witness ==
    /\ pc = "run2"
    /\ attempts = 3
    /\ steps = MaxSteps
    /\ Invoked("_run")
    /\ tools[1].name = "@bing"

\* C9: an invocation of _run makes exactly one call to the backend, with the
\* query and k; a fault of that call is what the invocation raises, with no
\* result put in its place; the agent run ends with that same fault, and it
\* is the retry loop that catches it.
C9_BackendFaultUnmodified ==
    /\ Invoked("_run") =>
          /\ tcall[1].backend_calls =
                <<BackendCall(tcall[1].query, tools[1].k)>>
          /\ tcall[1].web.up => tcall[1].out.kind = "return"
          /\ ~tcall[1].web.up => tcall[1].out = Raised(tcall[1].web.fault)
    /\ \A site \in Sites :
          /\ (pc = Labels.back[site] /\ result.exc \in BackendFaults) =>
                /\ Invoked("_run")
                /\ result = Raised(tcall[1].web.fault)
                /\ outcomes[attempts] = result
          /\ (pc = Labels.except[site] /\ e[1] \in BackendFaults) =>
                /\ Invoked("_run")
                /\ e[1] = tcall[1].web.fault
                /\ error = <<>>
    /\ \A j \in 1..Len(outcomes) :
          (outcomes[j].exc \in BackendFaults) => outcomes[j].kind = "raise"

C9_Witness ==
    /\ pc = "except1"
    /\ e # <<>>
    /\ e[1] \in BackendFaults
    /\ Invoked("_run")
    /\ tcall[1].out = Raised(e[1])
    /\ Len(tcall[1].backend_calls) = 1

---------------------------------------------------------------------------
\* Properties of printmd.

\* the number of "$" among the first n characters of string
RECURSIVE Dollars(_, _)
Dollars(string, n) ==
    IF n = 0 THEN 0
    ELSE Dollars(string, n - 1) + (IF string[n] = "$" THEN 1 ELSE 0)

\* where the rendering of character j of string starts in the displayed text
Position(string, j) == j + 3 * Dollars(string, j - 1)

\* C6: the text printmd displays has "USD " in the place of every "$" of
\* the string and every other character unchanged and in order, so it holds
\* no "$"; "$100" is displayed as "USD 100".
C6_DollarToUSD ==
    (pc = Labels.after[1] /\ displayed # <<>>) =>
       LET string == response[1]
           shown == displayed[Len(displayed)]
       IN /\ \A p \in 1..Len(shown) : shown[p] # "$"
          /\ Len(shown) = Len(string) + 3 * Dollars(string, Len(string))
          /\ \A j \in 1..Len(string) :
                LET p == Position(string, j) IN
                  IF string[j] = "$"
                  THEN SubSeq(shown, p, p + 3) = <<"U", "S", "D", " ">>
                  ELSE shown[p] = string[j]
          /\ string = <<"$", "1", "0", "0">> =>
                shown = <<"U", "S", "D", " ", "1", "0", "0">>

C6_Witness ==
    /\ pc = Labels.after[1]
    /\ response = << <<"$", "1", "0", "0">> >>
    /\ displayed = << <<"U", "S", "D", " ", "1", "0", "0">> >>

---------------------------------------------------------------------------
\* Properties of the bootstrap.

\* the required names in the order the mapping cell reads them
ReadOrder == <<"AZURE_OPENAI_ENDPOINT", "AZURE_OPENAI_API_KEY",
               "AZURE_OPENAI_API_VERSION">>

\* the statement of the mapping cell that reads the first absent name
FirstAbsent ==
    CHOOSE n \in 1..3 :
       /\ ReadOrder[n] \in env0.absent
       /\ \A m \in 1..(n - 1) : ReadOrder[m] \notin env0.absent

\* with a required value absent: no client, no agent call, no response
NothingRuns ==
    /\ llm = <<>>
    /\ agent_executor = <<>>
    /\ attempts = 0
    /\ outcomes = <<>>
    /\ response = <<>>
    /\ displayed = <<>>
    /\ e = <<>>

\* C7, as claimed: a run with a required value absent is halted at the
\* construction of the LLM client, by an error that is not caught, with no
\* client constructed, no agent call made and no response set.
C7_HaltsAtClientConstruction ==
    env0.absent # {} =>
       /\ NothingRuns
       /\ pc = "halted" => error[1].cell \in {"llm1", "llm2"}

\* C7, amended: a run with a required value absent is halted in the
\* environment mapping cell, by the KeyError of the first statement that
\* reads an absent name, before the construction of the LLM client is
\* reached; the error is not caught, no client is constructed, no agent call
\* is made and no response is set.
C7_HaltsAtEnvironmentMapping ==
    env0.absent # {} =>
       /\ NothingRuns
       /\ pc \in {EnvPc(n) : n \in 1..FirstAbsent} \cup {"halted"}
       /\ pc = "halted" =>
             /\ error[1].cell = EnvPc(FirstAbsent)
             /\ error[1].exc = Exc("KeyError", <<ReadOrder[FirstAbsent]>>)

C7_Witness ==
    /\ pc = "halted"
    /\ env0.absent = {"AZURE_OPENAI_API_KEY"}
    /\ error[1].cell = "env2"
    /\ error[1].exc.type = "KeyError"
    /\ environ["OPENAI_API_BASE"] = <<"value">>
    /\ environ["OPENAI_API_KEY"] = <<"stale">>
    /\ llm = <<>>

---------------------------------------------------------------------------
\* Two executions of the first retry loop, compared.

\* the execution that left outcomes os ended with an attempt returning s
Succeeded(os, s) ==
    /\ os # <<>>
    /\ os[Len(os)].kind = "return"
    /\ os[Len(os)].val = s

\* every attempt of the execution faulted, the last with message s
Failed(os, s) ==
    /\ os # <<>>
    /\ AllFault(os)
    /\ str(os[Len(os)].exc) = s

\* both executions have ended, one with an answer and the other with faults
\* only, the answer being the message of the last fault
Paired ==
    /\ prev # <<>>
    /\ pc = Labels.after[1]
    /\ \E s \in Answers :
          \/ Succeeded(prev[1].outcomes, s) /\ Failed(outcomes, s)
          \/ Failed(prev[1].outcomes, s) /\ Succeeded(outcomes, s)

\* the outcomes of the one of the two executions that succeeded
Winner == IF AllFault(outcomes) THEN prev[1].outcomes ELSE outcomes

===========================================================================
